---- MODULE Spec2Model ----
(***************************************************************************)
(* Taxable Tracker (src/app.py): the record store with its three tables,   *)
(* the form handlers that append to it, the fuel economy deriver, the      *)
(* yearly report and the CSV export.                                       *)
(*                                                                         *)
(* Text is a sequence of one-character strings, so that strip(),           *)
(* date.fromisoformat(), date.isoformat() and "{:.2f}" are computed        *)
(* character by character.  Money is an integer number of thousandths      *)
(* (mills); a value rounded to 2 decimals is an integer number of cents,   *)
(* a value rounded to 3 decimals an integer number of thousandths.         *)
(* An optional value is <<>> (None) or <<v>>.                              *)
(***************************************************************************)
EXTENDS Integers, Sequences, FiniteSets, TLC

VARIABLES started, categories, transactions, fuellogs, last, pc, loc

vars == <<started, categories, transactions, fuellogs, last, pc, loc>>

(***************************************************************************)
(* Bounds of the model.                                                    *)
(***************************************************************************)
MaxRows == 2

MaxLen == 3

(***************************************************************************)
(* Text helpers.                                                           *)
(***************************************************************************)
None == <<>>

Some(v) == <<v>>

\* code points 32..95
AsciiLow ==
    <<" ", "!", "\"", "#", "$", "%", "&", "'", "(", ")", "*", "+", ",", "-", ".", "/",
      "0", "1", "2", "3", "4", "5", "6", "7", "8", "9", ":", ";", "<", "=", ">", "?",
      "@", "A", "B", "C", "D", "E", "F", "G", "H", "I", "J", "K", "L", "M", "N", "O",
      "P", "Q", "R", "S", "T", "U", "V", "W", "X", "Y", "Z", "[", "\\", "]", "^", "_">>

\* code points 97..126
AsciiHigh ==
    <<"a", "b", "c", "d", "e", "f", "g", "h", "i", "j", "k", "l", "m", "n", "o",
      "p", "q", "r", "s", "t", "u", "v", "w", "x", "y", "z", "{", "|", "}", "~">>

\* ord(c), the key of Python's string comparison
CharCode(c) ==
    IF \E i \in 1..Len(AsciiLow) : AsciiLow[i] = c
    THEN 31 + (CHOOSE i \in 1..Len(AsciiLow) : AsciiLow[i] = c)
    ELSE 96 + (CHOOSE i \in 1..Len(AsciiHigh) : AsciiHigh[i] = c)

RECURSIVE StrLT(_, _)
StrLT(a, b) ==
    IF b = <<>> THEN FALSE
    ELSE IF a = <<>> THEN TRUE
    ELSE IF Head(a) = Head(b) THEN StrLT(Tail(a), Tail(b))
    ELSE CharCode(Head(a)) < CharCode(Head(b))

Whitespace == {" ", "\t", "\n"}

RECURSIVE lstrip(_)
lstrip(s) ==
    IF s # <<>> /\ Head(s) \in Whitespace THEN lstrip(Tail(s)) ELSE s

RECURSIVE rstrip(_)
rstrip(s) ==
    IF s # <<>> /\ s[Len(s)] \in Whitespace
    THEN rstrip(SubSeq(s, 1, Len(s) - 1))
    ELSE s

strip(s) == rstrip(lstrip(s))

StripOrNone(s) == IF strip(s) = <<>> THEN None ELSE Some(strip(s))

OrEmpty(o) == IF o = None THEN <<>> ELSE o[1]

Reverse(s) == [i \in 1..Len(s) |-> s[Len(s) + 1 - i]]

Take(s, n) == SubSeq(s, 1, IF Len(s) < n THEN Len(s) ELSE n)

RECURSIVE SumSeq(_)
SumSeq(s) == IF s = <<>> THEN 0 ELSE Head(s) + SumSeq(Tail(s))

(***************************************************************************)
(* Dates: datetime.date as [year, month, day].                             *)
(***************************************************************************)
Digits == <<"0", "1", "2", "3", "4", "5", "6", "7", "8", "9">>

IsDigit(c) == \E i \in 1..10 : Digits[i] = c

DigitVal(c) == (CHOOSE i \in 1..10 : Digits[i] = c) - 1

DigitChar(n) == Digits[n + 1]

IsLeap(y) == (y % 4 = 0) /\ ((y % 100 # 0) \/ (y % 400 = 0))

DaysInMonth(y, m) ==
    IF m = 2 THEN (IF IsLeap(y) THEN 29 ELSE 28)
    ELSE IF m \in {4, 6, 9, 11} THEN 30 ELSE 31

MkDate(y, m, d) == [year |-> y, month |-> m, day |-> d]

DateWellFormed(s) ==
    /\ Len(s) = 10
    /\ s[5] = "-"
    /\ s[8] = "-"
    /\ \A i \in {1, 2, 3, 4, 6, 7, 9, 10} : IsDigit(s[i])

ParsedDate(s) ==
    MkDate(1000 * DigitVal(s[1]) + 100 * DigitVal(s[2]) + 10 * DigitVal(s[3]) + DigitVal(s[4]),
           10 * DigitVal(s[6]) + DigitVal(s[7]),
           10 * DigitVal(s[9]) + DigitVal(s[10]))

DateInRange(d) ==
    /\ d.year >= 1
    /\ d.year <= 9999
    /\ d.month >= 1
    /\ d.month <= 12
    /\ d.day >= 1
    /\ d.day <= DaysInMonth(d.year, d.month)

\* date.fromisoformat: [ok |-> TRUE, value |-> date], or ok = FALSE for ValueError
fromisoformat(s) ==
    IF DateWellFormed(s) /\ DateInRange(ParsedDate(s))
    THEN [ok |-> TRUE, value |-> ParsedDate(s)]
    ELSE [ok |-> FALSE, value |-> MkDate(0, 0, 0)]

isoformat(d) ==
    <<DigitChar(d.year \div 1000), DigitChar((d.year \div 100) % 10),
      DigitChar((d.year \div 10) % 10), DigitChar(d.year % 10), "-",
      DigitChar(d.month \div 10), DigitChar(d.month % 10), "-",
      DigitChar(d.day \div 10), DigitChar(d.day % 10)>>

DateLT(a, b) ==
    \/ a.year < b.year
    \/ a.year = b.year /\ a.month < b.month
    \/ a.year = b.year /\ a.month = b.month /\ a.day < b.day

DateLE(a, b) == a = b \/ DateLT(a, b)

ytd_range(year) == [start |-> MkDate(year, 1, 1), end |-> MkDate(year + 1, 1, 1)]

\* faulty variant: the end of the range is included
InRange_mut(d, start, end) == DateLE(start, d) /\ DateLE(d, end)

InRange(d, start, end) == DateLE(start, d) /\ DateLT(d, end)

(***************************************************************************)
(* Numbers: round() and "{:.2f}" on decimal values.                        *)
(***************************************************************************)
\* n / d rounded to the nearest integer, ties to even (d > 0)
RoundDiv(n, d) ==
    LET q == n \div d
        r == n % d
    IN  IF 2 * r < d THEN q
        ELSE IF 2 * r > d THEN q + 1
        ELSE IF q % 2 = 0 THEN q ELSE q + 1

\* round(v, 2) of a value in mills, as cents
Round2(mills) == RoundDiv(mills, 10)

RECURSIVE NatDigits(_)
NatDigits(n) ==
    IF n < 10 THEN <<DigitChar(n)>>
    ELSE Append(NatDigits(n \div 10), DigitChar(n % 10))

\* f"{v:.2f}" of a value in mills
Format2f(mills) ==
    LET c == Round2(mills)
        a == IF c < 0 THEN 0 - c ELSE c
        sign == IF mills < 0 THEN <<"-">> ELSE <<>>
    IN  sign \o NatDigits(a \div 100) \o <<".">>
             \o <<DigitChar((a % 100) \div 10), DigitChar(a % 10)>>

(***************************************************************************)
(* Fuel economy deriver.                                                   *)
(***************************************************************************)
\* position of x in an ascending list: after every element whose key is <= x's
RECURSIVE InsertByFillDate(_, _)
InsertByFillDate(s, x) ==
    IF s = <<>> THEN <<x>>
    ELSE IF DateLT(x.fill_date, Head(s).fill_date) THEN <<x>> \o s
    ELSE <<Head(s)>> \o InsertByFillDate(Tail(s), x)

\* sorted(rows, key=lambda r: r.fill_date): ascending and stable
RECURSIVE SortedByFillDate(_)
SortedByFillDate(rows) ==
    IF rows = <<>> THEN <<>>
    ELSE InsertByFillDate(SortedByFillDate(SubSeq(rows, 1, Len(rows) - 1)), rows[Len(rows)])

\* faulty variant: >= for >
HasDistance_mut(f, prev) == prev # None /\ f.odometer_km >= prev[1].odometer_km

\* "prev and f.odometer_km > prev.odometer_km"; prev is None or Some(row)
HasDistance(f, prev) == prev # None /\ f.odometer_km > prev[1].odometer_km

\* one entry of the loop body; prev is None or Some(row)
FuelEntry(f, prev) ==
    LET km == f.odometer_km - prev[1].odometer_km
    IN  [id |-> f.id,
         fill_date |-> f.fill_date,
         odometer_km |-> f.odometer_km,
         total_cost |-> f.total_cost,
         notes |-> f.notes,
         km_since_last |-> IF HasDistance(f, prev) THEN Some(km) ELSE None,
         cost_per_km |-> IF HasDistance(f, prev) /\ km # 0
                         THEN Some(RoundDiv(f.total_cost, km)) ELSE None]

compute_fuel_stats(rows) ==
    LET rows_sorted == SortedByFillDate(rows)
        out == [i \in 1..Len(rows_sorted) |->
                  FuelEntry(rows_sorted[i],
                            IF i = 1 THEN None ELSE Some(rows_sorted[i - 1]))]
    IN  Reverse(out)

(***************************************************************************)
(* The record store: three tables, rows in insertion order, identifiers    *)
(* assigned by the store.                                                  *)
(***************************************************************************)
Str_Fuel == <<"F", "u", "e", "l">>

Str_Utilities == <<"U", "t", "i", "l", "i", "t", "i", "e", "s">>

Str_Meals == <<"M", "e", "a", "l", "s">>

Str_RentalIncome == <<"R", "e", "n", "t", "a", "l", " ", "I", "n", "c", "o", "m", "e">>

DEFAULT_CATEGORIES ==
    <<Str_RentalIncome,
      <<"R", "e", "p", "a", "i", "r", "s", " ", "&", " ", "M", "a", "i", "n", "t", "e", "n", "a", "n", "c", "e">>,
      Str_Utilities,
      <<"C", "o", "n", "d", "o", " ", "F", "e", "e", "s">>,
      <<"I", "n", "s", "u", "r", "a", "n", "c", "e">>,
      <<"P", "r", "o", "p", "e", "r", "t", "y", " ", "T", "a", "x">>,
      <<"O", "f", "f", "i", "c", "e", " ", "S", "u", "p", "p", "l", "i", "e", "s">>,
      Str_Meals,
      <<"P", "a", "r", "k", "i", "n", "g">>,
      <<"P", "h", "o", "n", "e", "/", "I", "n", "t", "e", "r", "n", "e", "t">>,
      <<"T", "o", "o", "l", "s">>,
      Str_Fuel>>

NextId(table) == Len(table) + 1

\* Category.name is unique=True: the store refuses a commit that would
\* leave two rows with one name (IntegrityError), and keeps none of it
RECURSIVE InsertCategories(_, _)
InsertCategories(table, names) ==
    IF names = <<>> THEN [ok |-> TRUE, table |-> table]
    ELSE IF \E i \in 1..Len(table) : table[i].name = Head(names)
         THEN [ok |-> FALSE, table |-> table]
         ELSE InsertCategories(Append(table, [id |-> NextId(table), name |-> Head(names)]),
                               Tail(names))

\* faulty variant: the existence check never finds the row
CategoryExists_mut(table, clean) == FALSE

\* select(Category).where(Category.name == clean).first()
CategoryExists(table, clean) == \E i \in 1..Len(table) : table[i].name = clean

\* the permutations of 1..n, for every number n of rows a query can return
Perms ==
    [n \in 0..MaxRows |-> {p \in [1..n -> 1..n] : \A i, j \in 1..n : i # j => p[i] # p[j]}]

\* the orders in which the store may return rows: any, when the query has no
\* ORDER BY
AnyOrder(rows) == {[i \in 1..Len(rows) |-> rows[p[i]]] : p \in Perms[Len(rows)]}

\* order_by(Transaction.tx_date.desc()): rows of one date in any order
TxDateDesc(rows) ==
    {s \in AnyOrder(rows) :
        \A i \in 1..(Len(s) - 1) : DateLE(s[i + 1].tx_date, s[i].tx_date)}

\* order_by(FuelLog.fill_date.desc()): rows of one date in any order
FillDateDesc(rows) ==
    {s \in AnyOrder(rows) :
        \A i \in 1..(Len(s) - 1) : DateLE(s[i + 1].fill_date, s[i].fill_date)}

TxWhere(table, start, end) ==
    SelectSeq(table, LAMBDA t : InRange(t.tx_date, start, end))

FuelWhere(table, start, end) ==
    SelectSeq(table, LAMBDA f : InRange(f.fill_date, start, end))

(***************************************************************************)
(* Requests the handlers are driven with.                                  *)
(***************************************************************************)
D_2024_03_01 == <<"2", "0", "2", "4", "-", "0", "3", "-", "0", "1">>

D_2024_03_15 == <<"2", "0", "2", "4", "-", "0", "3", "-", "1", "5">>

D_2024_12_31 == <<"2", "0", "2", "4", "-", "1", "2", "-", "3", "1">>

D_2025_01_01 == <<"2", "0", "2", "5", "-", "0", "1", "-", "0", "1">>

\* strings date.fromisoformat refuses: 29 Feb of a common year, slashes,
\* missing zero padding
MalformedDates ==
    {<<"2", "0", "2", "3", "-", "0", "2", "-", "2", "9">>,
     <<"2", "0", "2", "4", "/", "0", "3", "/", "0", "1">>,
     <<"2", "0", "2", "4", "-", "3", "-", "1">>}

Str_acme == <<" ", "a", "c", "m", "e", " ">>

TxForm(d, s, t, c, a, v, n) ==
    [tx_date |-> d, source |-> s, type |-> t, category |-> c, amount |-> a,
     vendor |-> v, notes |-> n]

TxForms ==
    {TxForm(D_2024_03_01, "rental", "income", Str_RentalIncome, 1000000, <<>>, <<>>),
     TxForm(D_2024_03_15, "rental", "expense", Str_Utilities, 150000, Str_acme, <<" ">>),
     TxForm(D_2024_03_15, "work", "income", Str_RentalIncome, 6, <<>>, <<>>),
     TxForm(D_2024_12_31, "work", "expense", Str_Meals, 4, <<>>, <<>>),
     TxForm(D_2025_01_01, "rental", "expense", Str_Fuel, 20000, <<>>, <<>>),
     TxForm(D_2024_03_01, "rental", "transfer", Str_Meals, 1000, <<>>, <<>>),
     TxForm(D_2024_03_01, "personal", "expense", Str_Meals, 1000, <<>>, <<>>)}
    \cup {TxForm(d, "rental", "expense", Str_Meals, 1000, <<>>, <<>>) : d \in MalformedDates}

FuelForm(d, o, c, n) ==
    [fill_date |-> d, odometer_km |-> o, total_cost |-> c, notes |-> n]

FuelForms ==
    {FuelForm(D_2024_03_01, 1000, 50000, <<>>),
     FuelForm(D_2024_03_01, 1400, 50004, <<" ", "f", "u", "l", "l", " ">>),
     FuelForm(D_2025_01_01, 1400, 20000, <<>>),
     FuelForm(<<"2", "0", "2", "4", "-", "1", "3", "-", "0", "1">>, 1500, 50000, <<>>)}

CategoryNames ==
    {<<" ", "\t">>, <<" ", "a", " ">>, <<"a">>, <<"F", "u", "e", "l", " ">>}

Years == {2024, 2025}

Procs == {1, 2}

(***************************************************************************)
(* State.                                                                  *)
(***************************************************************************)
Resp(op, args, status, url, body) ==
    [op |-> op, args |-> args, status |-> status, url |-> url, body |-> body]

IdleLoc == [name |-> <<>>, clean |-> <<>>, status |-> 0]

Init ==
    /\ started = FALSE
    /\ categories = <<>>
    /\ transactions = <<>>
    /\ fuellogs = <<>>
    /\ last = Resp("none", <<>>, 0, "", <<>>)
    /\ pc = [p \in Procs |-> "idle"]
    /\ loc = [p \in Procs |-> IdleLoc]

Idle == \A p \in Procs : pc[p] = "idle"

StoredRows == Len(transactions) + Len(fuellogs)

(***************************************************************************)
(* Startup and the writing handlers.                                       *)
(***************************************************************************)
on_startup ==
    /\ Idle
    /\ started' = TRUE
    /\ categories' = IF categories = <<>>
                     THEN InsertCategories(categories, DEFAULT_CATEGORIES).table
                     ELSE categories
    /\ last' = Resp("on_startup", <<>>, 0, "", <<>>)
    /\ UNCHANGED <<transactions, fuellogs, pc, loc>>

ValidTypes == {"income", "expense"}

\* faulty variant: the source check of another revision
ValidSources_mut == {"rental", "work", "personal"}

ValidSources == {"rental", "work"}

TxRow(id, form) ==
    [id |-> id,
     tx_date |-> fromisoformat(form.tx_date).value,
     source |-> form.source,
     type |-> form.type,
     category |-> form.category,
     amount |-> form.amount,
     vendor |-> StripOrNone(form.vendor),
     notes |-> StripOrNone(form.notes)]

ui_create_transaction(form) ==
    /\ started
    /\ Idle
    /\ IF form.type \notin ValidTypes
       THEN /\ last' = Resp("ui_create_transaction", form, 400, "", "type must be income or expense")
            /\ UNCHANGED transactions
       ELSE IF form.source \notin ValidSources
       THEN /\ last' = Resp("ui_create_transaction", form, 400, "", "source must be rental or work")
            /\ UNCHANGED transactions
       ELSE IF ~fromisoformat(form.tx_date).ok
       THEN /\ last' = Resp("ui_create_transaction", form, 500, "", "ValueError")
            /\ UNCHANGED transactions
       ELSE /\ StoredRows < MaxRows
            /\ transactions' = Append(transactions, TxRow(NextId(transactions), form))
            /\ last' = Resp("ui_create_transaction", form, 303, "/ui", <<>>)
    /\ UNCHANGED <<started, categories, fuellogs, pc, loc>>

FuelRow(id, form) ==
    [id |-> id,
     fill_date |-> fromisoformat(form.fill_date).value,
     odometer_km |-> form.odometer_km,
     total_cost |-> form.total_cost,
     notes |-> StripOrNone(form.notes)]

\* faulty variant: a fill-up of a date already logged replaces the stored rows
ui_create_fuel_mut(form) ==
    /\ started
    /\ Idle
    /\ IF ~fromisoformat(form.fill_date).ok
       THEN /\ last' = Resp("ui_create_fuel", form, 500, "", "ValueError")
            /\ UNCHANGED fuellogs
       ELSE /\ StoredRows < MaxRows
            /\ fuellogs' =
                 IF \E i \in 1..Len(fuellogs) :
                        fuellogs[i].fill_date = fromisoformat(form.fill_date).value
                 THEN <<FuelRow(1, form)>>
                 ELSE Append(fuellogs, FuelRow(NextId(fuellogs), form))
            /\ last' = Resp("ui_create_fuel", form, 303, "/ui", <<>>)
    /\ UNCHANGED <<started, categories, transactions, pc, loc>>

ui_create_fuel(form) ==
    /\ started
    /\ Idle
    /\ IF ~fromisoformat(form.fill_date).ok
       THEN /\ last' = Resp("ui_create_fuel", form, 500, "", "ValueError")
            /\ UNCHANGED fuellogs
       ELSE /\ StoredRows < MaxRows
            /\ fuellogs' = Append(fuellogs, FuelRow(NextId(fuellogs), form))
            /\ last' = Resp("ui_create_fuel", form, 303, "/ui", <<>>)
    /\ UNCHANGED <<started, categories, transactions, pc, loc>>

\* the whole handler, served with no other request in flight
ui_add_category(name) ==
    LET clean == strip(name)
        ins == InsertCategories(categories, <<clean>>)
    IN  /\ started
        /\ Idle
        /\ IF clean = <<>>
           THEN /\ last' = Resp("ui_add_category", name, 303, "/ui/transaction/new", <<>>)
                /\ UNCHANGED categories
           ELSE IF CategoryExists(categories, clean)
           THEN /\ last' = Resp("ui_add_category", name, 303, "/ui/transaction/new", <<>>)
                /\ UNCHANGED categories
           ELSE IF ins.ok
           THEN /\ categories' = ins.table
                /\ last' = Resp("ui_add_category", name, 303, "/ui/transaction/new", <<>>)
           ELSE /\ last' = Resp("ui_add_category", name, 500, "", "IntegrityError")
                /\ UNCHANGED categories
        /\ UNCHANGED <<started, transactions, fuellogs, pc, loc>>

(***************************************************************************)
(* The reading handlers.                                                   *)
(***************************************************************************)
HomeTxLimit == 15

HomeFuelLimit == 30

HomeFuelViewLimit == 10

ui_home ==
    /\ started
    /\ Idle
    /\ \E txs \in TxDateDesc(transactions), fuels \in FillDateDesc(fuellogs) :
         LET fuel_view == Take(compute_fuel_stats(Reverse(Take(fuels, HomeFuelLimit))),
                               HomeFuelViewLimit)
         IN  last' = Resp("ui_home", <<>>, 200, "",
                          [transactions |-> Take(txs, HomeTxLimit), fuel |-> fuel_view])
    /\ UNCHANGED <<started, categories, transactions, fuellogs, pc, loc>>

Amounts(rows) == [i \in 1..Len(rows) |-> rows[i].amount]

Costs(rows) == [i \in 1..Len(rows) |-> rows[i].total_cost]

OfType(rows, type) == SelectSeq(rows, LAMBDA t : t.type = type)

OfCategory(rows, category) == SelectSeq(rows, LAMBDA t : t.category = category)

\* faulty variant: the "Fuel" key only appears with an expense of that category
CategoryKeys_mut(txs, include_fuel_log) ==
    {txs[i].category : i \in {j \in 1..Len(txs) : txs[j].type = "expense"}}

\* the keys of by_category_expense after the loop and the fuel fold
CategoryKeys(txs, include_fuel_log) ==
    {txs[i].category : i \in {j \in 1..Len(txs) : txs[j].type = "expense"}}
        \cup (IF include_fuel_log # 0 THEN {Str_Fuel} ELSE {})

\* faulty variant: the fuel total is left out of the "Fuel" entry
CategoryValue_mut(txs, fuel_total, include_fuel_log, k) ==
    SumSeq(Amounts(OfCategory(OfType(txs, "expense"), k)))

\* by_category_expense[k] after the loop and the fuel fold, in mills
CategoryValue(txs, fuel_total, include_fuel_log, k) ==
    SumSeq(Amounts(OfCategory(OfType(txs, "expense"), k)))
        + (IF include_fuel_log # 0 /\ k = Str_Fuel THEN fuel_total ELSE 0)

\* sorted(keys): ascending by code point
RECURSIVE SortedKeys(_)
SortedKeys(S) ==
    IF S = {} THEN <<>>
    ELSE LET m == CHOOSE x \in S : \A y \in S \ {x} : StrLT(x, y)
         IN  <<m>> \o SortedKeys(S \ {m})

ByCategory(txs, fuel_total, include_fuel_log) ==
    LET keys == SortedKeys(CategoryKeys(txs, include_fuel_log))
    IN  [i \in 1..Len(keys) |->
           <<keys[i], Round2(CategoryValue(txs, fuel_total, include_fuel_log, keys[i]))>>]

\* faulty variant: the difference of the rounded totals
NetTotal_mut(income_total, expense_total) == Round2(income_total) - Round2(expense_total)

\* round(income_total - expense_total, 2), from the totals in mills
NetTotal(income_total, expense_total) == Round2(income_total - expense_total)

ReportBody(year, include_fuel_log, txs, fuels) ==
    LET income_total == SumSeq(Amounts(OfType(txs, "income")))
        fuel_total == SumSeq(Costs(fuels))
        expense_total == SumSeq(Amounts(OfType(txs, "expense")))
                           + (IF include_fuel_log # 0 THEN fuel_total ELSE 0)
    IN  [year |-> year,
         income_total |-> Round2(income_total),
         expense_total |-> Round2(expense_total),
         net_total |-> NetTotal(income_total, expense_total),
         by_category |-> ByCategory(txs, fuel_total, include_fuel_log),
         transactions |-> txs,
         fuel_rows |-> compute_fuel_stats(Reverse(fuels)),
         include_fuel_log |-> include_fuel_log]

ui_report(year, include_fuel_log) ==
    LET r == ytd_range(year)
    IN  /\ started
        /\ Idle
        /\ \E txs \in TxDateDesc(TxWhere(transactions, r.start, r.end)),
              fuels \in FillDateDesc(FuelWhere(fuellogs, r.start, r.end)) :
             last' = Resp("ui_report", <<year, include_fuel_log>>, 200, "",
                          ReportBody(year, include_fuel_log, txs, fuels))
        /\ UNCHANGED <<started, categories, transactions, fuellogs, pc, loc>>

CsvTxRow(t) ==
    <<"TRANSACTION", isoformat(t.tx_date), t.type, t.source, t.category,
      Format2f(t.amount), OrEmpty(t.vendor), OrEmpty(t.notes)>>

CsvFuelRow(f) ==
    <<"FUEL", isoformat(f.fill_date), f.odometer_km, Format2f(f.total_cost),
      OrEmpty(f.notes)>>

CsvBody(txs, fuels) ==
    <<<<"SECTION", "date", "type", "source", "category", "amount", "vendor", "notes">>>>
        \o [i \in 1..Len(txs) |-> CsvTxRow(txs[i])]
        \o <<<<>>>>
        \o <<<<"SECTION", "date", "odometer_km", "total_cost", "notes">>>>
        \o [i \in 1..Len(fuels) |-> CsvFuelRow(fuels[i])]

export_csv(year) ==
    LET r == ytd_range(year)
    IN  /\ started
        /\ Idle
        /\ \E txs \in AnyOrder(TxWhere(transactions, r.start, r.end)),
              fuels \in AnyOrder(FuelWhere(fuellogs, r.start, r.end)) :
             last' = Resp("export_csv", year, 200, "", CsvBody(txs, fuels))
        /\ UNCHANGED <<started, categories, transactions, fuellogs, pc, loc>>

Next ==
    \/ on_startup
    \/ \E form \in TxForms : ui_create_transaction(form)
    \/ \E form \in FuelForms : ui_create_fuel(form)
    \/ \E name \in CategoryNames : ui_add_category(name)
    \/ ui_home
    \/ \E year \in Years, include_fuel_log \in {0, 1} : ui_report(year, include_fuel_log)
    \/ \E year \in Years : export_csv(year)

Spec == Init /\ [][Next]_vars

(***************************************************************************)
(* ui_add_category served for several requests at once: each request is    *)
(* its own session, and the store serialises the statements.               *)
(***************************************************************************)
AddCat_Begin(p, name) ==
    /\ started
    /\ pc[p] = "idle"
    /\ IF strip(name) = <<>>
       THEN /\ pc' = [pc EXCEPT ![p] = "done"]
            /\ loc' = [loc EXCEPT ![p] = [name |-> name, clean |-> strip(name), status |-> 303]]
       ELSE /\ pc' = [pc EXCEPT ![p] = "check"]
            /\ loc' = [loc EXCEPT ![p] = [name |-> name, clean |-> strip(name), status |-> 0]]
    /\ UNCHANGED <<started, categories, transactions, fuellogs, last>>

AddCat_Check(p) ==
    /\ pc[p] = "check"
    /\ IF CategoryExists(categories, loc[p].clean)
       THEN /\ pc' = [pc EXCEPT ![p] = "done"]
            /\ loc' = [loc EXCEPT ![p].status = 303]
       ELSE /\ pc' = [pc EXCEPT ![p] = "commit"]
            /\ UNCHANGED loc
    /\ UNCHANGED <<started, categories, transactions, fuellogs, last>>

AddCat_Commit(p) ==
    LET ins == InsertCategories(categories, <<loc[p].clean>>)
    IN  /\ pc[p] = "commit"
        /\ categories' = ins.table
        /\ loc' = [loc EXCEPT ![p].status = IF ins.ok THEN 303 ELSE 500]
        /\ pc' = [pc EXCEPT ![p] = "done"]
        /\ UNCHANGED <<started, transactions, fuellogs, last>>

AddCat_Return(p) ==
    /\ pc[p] = "done"
    /\ last' = Resp("ui_add_category", loc[p].name, loc[p].status,
                    IF loc[p].status = 303 THEN "/ui/transaction/new" ELSE "",
                    IF loc[p].status = 303 THEN <<>> ELSE "IntegrityError")
    /\ pc' = [pc EXCEPT ![p] = "idle"]
    /\ loc' = [loc EXCEPT ![p] = IdleLoc]
    /\ UNCHANGED <<started, categories, transactions, fuellogs>>

NextConc ==
    \/ on_startup
    \/ \E p \in Procs, name \in CategoryNames : AddCat_Begin(p, name)
    \/ \E p \in Procs : AddCat_Check(p)
    \/ \E p \in Procs : AddCat_Commit(p)
    \/ \E p \in Procs : AddCat_Return(p)

SpecConc == Init /\ [][NextConc]_vars

(***************************************************************************)
(* compute_fuel_stats on its own: every list of up to MaxLen fuel logs.     *)
(***************************************************************************)
FuelInputDates == {MkDate(2024, 3, 1), MkDate(2024, 3, 15)}

FuelInputOdometers == {1000, 1003, 1400}

FuelInputCosts == {0, 50000}

FuelInputRow(i, d, o, c) ==
    [id |-> i, fill_date |-> d, odometer_km |-> o, total_cost |-> c, notes |-> None]

\* the list of fuel logs that f gives: the i-th record has identifier i
FuelInput(f) ==
    [i \in DOMAIN f |-> FuelInputRow(i, f[i][1], f[i][2], f[i][3])]

InitFuel ==
    /\ started = FALSE
    /\ categories = <<>>
    /\ transactions = <<>>
    /\ fuellogs = <<>>
    /\ \E n \in 0..MaxLen :
         \E f \in [1..n -> FuelInputDates \X FuelInputOdometers \X FuelInputCosts] :
           last = Resp("input", FuelInput(f), 0, "", <<>>)
    /\ pc = [p \in Procs |-> "idle"]
    /\ loc = [p \in Procs |-> IdleLoc]

ComputeFuelStats ==
    /\ last.op = "input"
    /\ last' = Resp("compute_fuel_stats", last.args, 0, "", compute_fuel_stats(last.args))
    /\ UNCHANGED <<started, categories, transactions, fuellogs, pc, loc>>

NextFuel == ComputeFuelStats

SpecFuel == InitFuel /\ [][NextFuel]_vars

(***************************************************************************)
(* Properties.                                                             *)
(***************************************************************************)
IsPrefix(s, t) == Len(s) <= Len(t) /\ SubSeq(t, 1, Len(s)) = s

Blank(name) == \A i \in 1..Len(name) : name[i] \in Whitespace

NameCount(table, name) == Cardinality({i \in 1..Len(table) : table[i].name = name})

NamesUnique(table) ==
    \A i, j \in 1..Len(table) : table[i].name = table[j].name => i = j

InYearTx(year) == SelectSeq(transactions, LAMBDA t : t.tx_date.year = year)

InYearFuel(year) == SelectSeq(fuellogs, LAMBDA f : f.fill_date.year = year)

IsReport == last.op = "ui_report"

\* C1: after any sequence of startups and add-category requests no two
\* Category rows share a name, and a request whose trimmed name is empty or
\* is the name of a stored row changes no row and answers with the redirect
\* to the transaction form.
C1_CategoryNamesUnique ==
    [][/\ NamesUnique(categories')
       /\ (/\ last'.op = "ui_add_category"
           /\ (Blank(last'.args) \/ NameCount(categories, strip(last'.args)) > 0))
          => /\ categories' = categories
             /\ last'.status = 303
             /\ last'.url = "/ui/transaction/new"]_vars

C1_Witness ==
    /\ last.op = "ui_add_category"
    /\ strip(last.args) = Str_Fuel
    /\ last.status = 303
    /\ NameCount(categories, Str_Fuel) = 1
    /\ Len(categories) > Len(DEFAULT_CATEGORIES)

\* C2: a transaction form whose type is not income or expense, whose source
\* is not rental or work, or whose date is malformed is answered with an
\* error and leaves the Transaction table as it was; every stored
\* transaction has a type in {income, expense} and a source in {rental, work}.
C2_InvalidTransactionRejected ==
    [][/\ \A i \in 1..Len(transactions') :
            /\ transactions'[i].type \in {"income", "expense"}
            /\ transactions'[i].source \in {"rental", "work"}
       /\ (/\ last'.op = "ui_create_transaction"
           /\ \/ last'.args.type \notin {"income", "expense"}
              \/ last'.args.source \notin {"rental", "work"}
              \/ last'.args.tx_date \in MalformedDates)
          => /\ transactions' = transactions
             /\ last'.status >= 400]_vars

C2_Witness ==
    /\ last.op = "ui_create_transaction"
    /\ last.args.source = "personal"
    /\ last.status = 400
    /\ transactions # <<>>

\* C3: compute_fuel_stats returns one entry per input record; read in
\* ascending fill-date order the first entry has no km_since_last and no
\* cost_per_km, and a later entry has km_since_last = its odometer minus the
\* previous entry's odometer, and cost_per_km = total_cost over that distance
\* to the nearest thousandth, exactly when its odometer is greater than the
\* previous one; otherwise both are absent.  km_since_last is never zero or
\* negative.
C3_FuelStats ==
    last.op = "compute_fuel_stats" =>
        LET rows == last.args
            asc == Reverse(last.body)
        IN  /\ Len(asc) = Len(rows)
            /\ \A j \in 1..Len(rows) :
                 Cardinality({i \in 1..Len(asc) :
                                /\ asc[i].id = rows[j].id
                                /\ asc[i].fill_date = rows[j].fill_date
                                /\ asc[i].odometer_km = rows[j].odometer_km
                                /\ asc[i].total_cost = rows[j].total_cost}) = 1
            /\ \A i \in 1..(Len(asc) - 1) : DateLE(asc[i].fill_date, asc[i + 1].fill_date)
            /\ Len(asc) > 0 => asc[1].km_since_last = None /\ asc[1].cost_per_km = None
            /\ \A i \in 2..Len(asc) :
                 IF asc[i].odometer_km > asc[i - 1].odometer_km
                 THEN /\ asc[i].km_since_last = Some(asc[i].odometer_km - asc[i - 1].odometer_km)
                      /\ asc[i].cost_per_km # None
                      /\ LET km == asc[i].odometer_km - asc[i - 1].odometer_km
                             e == asc[i].cost_per_km[1] * km - asc[i].total_cost
                         IN  2 * e <= km /\ 2 * e >= 0 - km
                 ELSE asc[i].km_since_last = None /\ asc[i].cost_per_km = None
            /\ \A i \in 1..Len(asc) :
                 asc[i].km_since_last # None => asc[i].km_since_last[1] > 0

C3_Witness ==
    /\ last.op = "compute_fuel_stats"
    /\ Len(last.body) = 3
    /\ [i \in 1..3 |-> Reverse(last.body)[i].odometer_km] = <<1000, 1400, 1400>>
    /\ [i \in 1..3 |-> Reverse(last.body)[i].km_since_last] = <<None, Some(400), None>>
    /\ Reverse(last.body)[2].cost_per_km = Some(125)

\* the store of the end-to-end example, for the year reported: one income of
\* 1000.00, one expense of 150.00 in Utilities, no fuel log
ExampleStore(year) ==
    /\ Len(InYearTx(year)) = 2
    /\ \E i, j \in 1..2 :
         /\ InYearTx(year)[i].type = "income"
         /\ InYearTx(year)[i].amount = 1000000
         /\ InYearTx(year)[j].type = "expense"
         /\ InYearTx(year)[j].amount = 150000
         /\ InYearTx(year)[j].category = Str_Utilities
    /\ InYearFuel(year) = <<>>

IsExampleReport == IsReport /\ last.args[2] = 1 /\ ExampleStore(last.args[1])

\* C4, as claimed: the report of the example store with default parameters
\* has income_total 1000.00, expense_total 150.00, net_total 850.00 and
\* by_category exactly [("Utilities", 150.00)].
C4_ExampleReport_Original ==
    IsExampleReport =>
        /\ last.body.income_total = 100000
        /\ last.body.expense_total = 15000
        /\ last.body.net_total = 85000
        /\ last.body.by_category = <<<<Str_Utilities, 15000>>>>

\* C4, amended: the totals are as claimed and by_category is
\* [("Fuel", 0.00), ("Utilities", 150.00)]; in every report the keys of
\* by_category are the categories of the expenses in range, and "Fuel" as
\* well whenever include_fuel_log is on.
C4_ExampleReport ==
    /\ IsExampleReport =>
         /\ last.body.income_total = 100000
         /\ last.body.expense_total = 15000
         /\ last.body.net_total = 85000
         /\ last.body.by_category = <<<<Str_Fuel, 0>>, <<Str_Utilities, 15000>>>>
    /\ IsReport =>
         {last.body.by_category[i][1] : i \in 1..Len(last.body.by_category)}
           = {t.category : t \in {InYearTx(last.args[1])[i] :
                                    i \in {j \in 1..Len(InYearTx(last.args[1])) :
                                             InYearTx(last.args[1])[j].type = "expense"}}}
               \cup (IF last.args[2] = 1 THEN {Str_Fuel} ELSE {})

C4_Witness == IsExampleReport /\ Len(last.body.by_category) = 2

\* the unrounded income minus expenses (and fuel, when folded) of the year
\* reported, in mills
ExactNet ==
    SumSeq(Amounts(OfType(InYearTx(last.args[1]), "income")))
      - SumSeq(Amounts(OfType(InYearTx(last.args[1]), "expense")))
      - (IF last.args[2] = 1 THEN SumSeq(Costs(InYearFuel(last.args[1]))) ELSE 0)

WholeCents ==
    /\ \A i \in 1..Len(InYearTx(last.args[1])) : InYearTx(last.args[1])[i].amount % 10 = 0
    /\ \A i \in 1..Len(InYearFuel(last.args[1])) : InYearFuel(last.args[1])[i].total_cost % 10 = 0

\* C5, as claimed: the reported net_total is the reported income_total minus
\* the reported expense_total.
C5_NetOfRoundedTotals_Original ==
    IsReport => last.body.net_total = last.body.income_total - last.body.expense_total

\* C5, amended: net_total is the unrounded income minus the unrounded
\* expenses, rounded to 2 decimals; it is within one cent of income_total
\* minus expense_total, and equal to it when every amount in range is a whole
\* number of cents.
C5_NetOfExactTotals ==
    IsReport =>
        LET d == last.body.net_total - (last.body.income_total - last.body.expense_total)
        IN  /\ 10 * last.body.net_total - ExactNet <= 5
            /\ ExactNet - 10 * last.body.net_total <= 5
            /\ d \in {-1, 0, 1}
            /\ WholeCents => d = 0

C5_Witness ==
    /\ IsReport
    /\ last.body.income_total = 1
    /\ last.body.expense_total = 0
    /\ last.body.net_total = 0

SumOfByCategory ==
    SumSeq([i \in 1..Len(last.body.by_category) |-> last.body.by_category[i][2]])

\* C6, as claimed: the values of by_category add up to expense_total, for
\* both settings of include_fuel_log.
C6_CategorySum_Original == IsReport => SumOfByCategory = last.body.expense_total

\* C6, amended: the values of by_category add up to expense_total, for both
\* settings of include_fuel_log, when every expense amount and fuel cost in
\* range is a whole number of cents.
C6_CategorySum == (IsReport /\ WholeCents) => SumOfByCategory = last.body.expense_total

C6_Witness ==
    /\ IsReport
    /\ WholeCents
    /\ last.args[2] = 1
    /\ InYearFuel(last.args[1]) # <<>>
    /\ Len(last.body.by_category) = 2
    /\ last.body.expense_total = 20000

CsvRows(section) == SelectSeq(last.body, LAMBDA r : r # <<>> /\ r[1] = section)

Count(rows, r) == Cardinality({i \in 1..Len(rows) : rows[i] = r})

CsvTxRowsOf(rows) == [i \in 1..Len(rows) |-> CsvTxRow(rows[i])]

CsvFuelRowsOf(rows) == [i \in 1..Len(rows) |-> CsvFuelRow(rows[i])]

SameRows(a, b) ==
    /\ Len(a) = Len(b)
    /\ \A i \in 1..Len(a) : Count(a, a[i]) = Count(b, a[i])

\* C7: the export of year Y has one TRANSACTION row for each stored
\* transaction dated in Y and one FUEL row for each stored fuel log dated in
\* Y, and no other TRANSACTION or FUEL row.
C7_ExportRows ==
    last.op = "export_csv" =>
        /\ SameRows(CsvRows("TRANSACTION"), CsvTxRowsOf(InYearTx(last.args)))
        /\ SameRows(CsvRows("FUEL"), CsvFuelRowsOf(InYearFuel(last.args)))

C7_Witness ==
    /\ last.op = "export_csv"
    /\ \E i \in 1..Len(transactions) : transactions[i].tx_date = MkDate(last.args, 12, 31)
    /\ \E i \in 1..Len(transactions) : transactions[i].tx_date = MkDate(last.args + 1, 1, 1)
    /\ Len(CsvRows("TRANSACTION")) = 1

\* C8: no step removes or changes a stored Transaction or FuelLog row; a
\* successful create adds one row to its table and touches no other table;
\* home, report and export change no table.
C8_AppendOnly ==
    [][/\ IsPrefix(transactions, transactions')
       /\ IsPrefix(fuellogs, fuellogs')
       /\ Len(transactions') + Len(fuellogs') <= Len(transactions) + Len(fuellogs) + 1
       /\ (last'.op = "ui_create_transaction" /\ last'.status = 303)
          => /\ Len(transactions') = Len(transactions) + 1
             /\ fuellogs' = fuellogs
             /\ categories' = categories
       /\ (last'.op = "ui_create_fuel" /\ last'.status = 303)
          => /\ Len(fuellogs') = Len(fuellogs) + 1
             /\ transactions' = transactions
             /\ categories' = categories
       /\ last'.op \in {"ui_home", "ui_report", "export_csv"}
          => /\ transactions' = transactions
             /\ fuellogs' = fuellogs
             /\ categories' = categories]_vars

C8_Witness ==
    /\ last.op = "ui_create_fuel"
    /\ last.status = 303
    /\ Len(fuellogs) = 2
    /\ fuellogs[1].fill_date = fuellogs[2].fill_date

FuelRowsShown ==
    IF last.op = "ui_report" THEN last.body.fuel_rows ELSE last.body.fuel

\* C9: in the fuel rows of the report and home pages, read oldest first,
\* records of one fill date follow each other in identifier order, so that
\* the record with the smaller identifier is the "previous" one of the
\* record with the larger identifier, whatever order the store returned them
\* in.
C9_SameDateByIdentifier ==
    last.op \in {"ui_report", "ui_home"} =>
        LET asc == Reverse(FuelRowsShown)
        IN  \A i \in 1..(Len(asc) - 1) :
              asc[i].fill_date = asc[i + 1].fill_date => asc[i].id < asc[i + 1].id

\* C10: when two add-category requests with the same name have both
\* finished, both answered with the redirect and one row has that name.
C10_ConcurrentAddCategory ==
    (/\ pc[1] = "done"
     /\ pc[2] = "done"
     /\ loc[1].clean = loc[2].clean
     /\ loc[1].clean # <<>>)
    => /\ loc[1].status = 303
       /\ loc[2].status = 303
       /\ NameCount(categories, loc[1].clean) = 1

====
